---- MODULE Spec2Model ----
(***************************************************************************)
(* Model of grblas/expr.py: index resolution (IndexerResolver), the        *)
(* staging objects Updater / Assigner / AmbiguousAssignOrExtract, and the  *)
(* infix expression dispatch (_ewise_infix_expr, _matmul_infix_expr).      *)
(*                                                                         *)
(* The library is single-threaded and synchronous.  A state holds the      *)
(* objects alive in one user statement (the container, the staging objects *)
(* built so far, the resolvers built so far), the log of container         *)
(* primitives invoked, and the exception raised, if any.  Every action is  *)
(* one method call of expr.py, translated whole.                           *)
(***************************************************************************)
EXTENDS Integers, Sequences, FiniteSets, TLC

\* ------------------------------------------------------------------ bounds
\* Largest dimension size of a container.
MaxSize == 2
\* Longest explicit index sequence (list, array, other iterable).
MaxLen == 2

\* ------------------------------------------------------------ Python values
\* Python's None, and an optional value x, as sequences of length 0 and 1.
None == <<>>
Some(x) == <<x>>
IsNone(o) == o = <<>>

Range(s) == {s[k] : k \in 1..Len(s)}

\* Integers a raw index may hold: below, inside and above every dimension.
IndexInts == (-1)..MaxSize

\* Sequences over S of length at most n.
SeqsUpTo(S, n) == UNION {[1..k -> S] : k \in 0..n}

\* -------------------------------------------------------- raw index values
\* One per-dimension index as the user writes it, tagged with its Python type.
\*   int      a plain (numpy or Python) integer
\*   slice    slice(start, stop, step), each None or an integer
\*   list     a Python list of integers
\*   ndarray  a numpy array: its rank, whether its dtype is integer, its values
\*   iter     any other iterable (range, set, generator), with its elements
\*   scalar   any other non-iterable object (float, None): tuple() raises
\*   tuple    a tuple of raw indexes (the whole index of a Matrix, or a tuple
\*            nested in a per-dimension slot)
IntIndex(i) == [typ |-> "int", val |-> i]
SliceIndex(a, b, c) == [typ |-> "slice", start |-> a, stop |-> b, step |-> c]
ListIndex(s) == [typ |-> "list", vals |-> s]
ArrayIndex(r, isint, s) == [typ |-> "ndarray", rank |-> r, intdtype |-> isint, vals |-> s]
IterIndex(s) == [typ |-> "iter", vals |-> s]
ScalarObjIndex == [typ |-> "scalar"]
Tup(items) == [typ |-> "tuple", items |-> items]
TupleIndex == Tup(<<IntIndex(0)>>)

SliceStarts == {None, Some(0), Some(1), Some(-1)}
SliceStops == {None, Some(1), Some(MaxSize + 1)}
SliceSteps == {None, Some(2), Some(-1)}

\* Every raw index tried against one dimension of a Vector.
RawIndex ==
    {IntIndex(i) : i \in IndexInts}
    \cup {SliceIndex(a, b, c) : a \in SliceStarts, b \in SliceStops, c \in SliceSteps}
    \cup {ListIndex(s) : s \in SeqsUpTo(IndexInts, MaxLen)}
    \cup {ArrayIndex(1, TRUE, s) : s \in SeqsUpTo(IndexInts, MaxLen)}
    \cup {ArrayIndex(2, TRUE, <<>>), ArrayIndex(1, FALSE, <<0>>), ArrayIndex(0, TRUE, <<>>)}
    \cup {IterIndex(s) : s \in SeqsUpTo(IndexInts, MaxLen)}
    \cup {ScalarObjIndex, TupleIndex}

\* The raw indexes tried in each slot of a Matrix index (a 2-tuple), and
\* against a container reached through an Updater.
KeyIndex ==
    {IntIndex(i) : i \in IndexInts}
    \cup {SliceIndex(None, None, None), ListIndex(<<MaxSize>>), TupleIndex}

\* ------------------------------------------------------- resolved index specs
\* The first component of an IndexSpec: _CScalar(i), _ALL_INDICES or _CArray(s).
CScalar(i) == [tag |-> "CScalar", val |-> i]
ALL_INDICES == [tag |-> "GrB_ALL"]
CArray(s) == [tag |-> "CArray", vals |-> s]

\* An IndexSpec: the pair (idx, size), size None or the count.
IndexSpec(idx, size) == [idx |-> idx, size |-> size]

\* The outcome of a call: a returned value or a raised exception.
Ok(v) == [ok |-> TRUE, val |-> v]
Raise(e) == [ok |-> FALSE, err |-> e]

\* ---------------------------------------------------------- slice expansion
\* Python's slice.indices(n) for a non-zero step, then range(n)[slice] as a tuple.
StepOf(sl) == IF IsNone(sl.step) THEN 1 ELSE sl.step[1]

Clamp(x, lo, hi) == IF x < lo THEN lo ELSE IF x > hi THEN hi ELSE x

SliceStart(sl, n) ==
    LET st == StepOf(sl)
        lo == IF st > 0 THEN 0 ELSE -1
        hi == IF st > 0 THEN n ELSE n - 1
    IN  IF IsNone(sl.start) THEN (IF st > 0 THEN lo ELSE hi)
        ELSE LET v == sl.start[1]
             IN  Clamp(IF v < 0 THEN v + n ELSE v, lo, hi)

SliceStop(sl, n) ==
    LET st == StepOf(sl)
        lo == IF st > 0 THEN 0 ELSE -1
        hi == IF st > 0 THEN n ELSE n - 1
    IN  IF IsNone(sl.stop) THEN (IF st > 0 THEN hi ELSE lo)
        ELSE LET v == sl.stop[1]
             IN  Clamp(IF v < 0 THEN v + n ELSE v, lo, hi)

RECURSIVE RangeFrom(_, _, _)
RangeFrom(a, b, st) ==
    IF (st > 0 /\ a >= b) \/ (st < 0 /\ a <= b) THEN <<>>
    ELSE <<a>> \o RangeFrom(a + st, b, st)

SliceExpand(sl, n) == RangeFrom(SliceStart(sl, n), SliceStop(sl, n), StepOf(sl))

\* index == slice(None) or index == slice(0, None)
IsFullSlice(sl) ==
    \/ (IsNone(sl.start) /\ IsNone(sl.stop) /\ IsNone(sl.step))
    \/ (sl.start = Some(0) /\ IsNone(sl.stop) /\ IsNone(sl.step))

\* ------------------------------------------------------------ IndexerResolver
\* IndexerResolver.parse_index(index, typ, size)
parse_index(index, size) ==
    CASE index.typ = "int" ->
           IF index.val >= size THEN Raise("IndexError")
           ELSE Ok(IndexSpec(CScalar(index.val), None))
      [] index.typ = "slice" ->
           IF IsFullSlice(index) THEN Ok(IndexSpec(ALL_INDICES, Some(size)))
           ELSE LET s == SliceExpand(index, size)
                IN  Ok(IndexSpec(CArray(s), Some(Len(s))))
      [] index.typ = "ndarray" ->
           IF index.rank # 1 THEN Raise("TypeError")
           ELSE IF ~index.intdtype THEN Raise("TypeError")
           ELSE Ok(IndexSpec(CArray(index.vals), Some(Len(index.vals))))
      [] index.typ = "list" ->
           Ok(IndexSpec(CArray(index.vals), Some(Len(index.vals))))
      [] index.typ = "iter" ->
           Ok(IndexSpec(CArray(index.vals), Some(Len(index.vals))))
      [] index.typ = "tuple" ->
           Ok(IndexSpec(CArray(index.items), Some(Len(index.items))))
      [] OTHER -> Raise("TypeError")

\* --------------------------------------------------------------- containers
\* A container: its variant and its shape (a tuple of 0, 1 or 2 sizes).
Scalar == [kind |-> "Scalar", shape |-> <<>>]
Vector(n) == [kind |-> "Vector", shape |-> <<n>>]
Matrix(r, c) == [kind |-> "Matrix", shape |-> <<r, c>>]
TransposedMatrix(r, c) == [kind |-> "TransposedMatrix", shape |-> <<r, c>>]

Sizes == 1..MaxSize

Vectors == {Vector(n) : n \in Sizes}
Matrices == {Matrix(r, c) : r \in Sizes, c \in Sizes}
Transposed == {TransposedMatrix(r, c) : r \in Sizes, c \in Sizes}
Containers == {Scalar} \cup Vectors \cup Matrices \cup Transposed

\* The whole index argument tried against a container.
IndexArgs(c) ==
    IF Len(c.shape) = 1 THEN RawIndex \cup {Tup(<<IntIndex(0)>>)}
    ELSE IF Len(c.shape) = 2
    THEN {Tup(<<a, b>>) : a \in KeyIndex, b \in KeyIndex}
         \cup {IntIndex(0), Tup(<<IntIndex(0)>>),
               Tup(<<IntIndex(0), IntIndex(0), IntIndex(0)>>)}
    ELSE {IntIndex(0), Tup(<<>>)}

\* The for loop of parse_indices over items k..Len(items): the specs appended,
\* or the first exception raised.
RECURSIVE ParseLoop(_, _, _)
ParseLoop(items, shape, k) ==
    IF k > Len(items) THEN Ok(<<>>)
    ELSE IF items[k].typ = "tuple" THEN Raise("TypeError")
    ELSE IF k > Len(shape) THEN Raise("IndexError")
    ELSE LET one == parse_index(items[k], shape[k])
         IN  IF ~one.ok THEN one
             ELSE LET rest == ParseLoop(items, shape, k + 1)
                  IN  IF ~rest.ok THEN rest ELSE Ok(<<one.val>> \o rest.val)

\* parse_indices accepting a tuple of any length for a 2-D container.
parse_indices_any_tuple(indices, shape) ==
    IF Len(shape) = 1
    THEN IF indices.typ = "tuple" THEN Raise("TypeError")
         ELSE ParseLoop(<<indices>>, shape, 1)
    ELSE IF Len(shape) = 2
    THEN IF indices.typ # "tuple" THEN Raise("TypeError")
         ELSE ParseLoop(indices.items, shape, 1)
    ELSE IF indices.typ = "tuple" THEN ParseLoop(indices.items, shape, 1)
    ELSE Raise("TypeError")

\* IndexerResolver.parse_indices(indices, shape)
parse_indices(indices, shape) ==
    IF Len(shape) = 1
    THEN IF indices.typ = "tuple" THEN Raise("TypeError")
         ELSE ParseLoop(<<indices>>, shape, 1)
    ELSE IF Len(shape) = 2
    THEN IF indices.typ # "tuple" \/ Len(indices.items) # 2 THEN Raise("TypeError")
         ELSE ParseLoop(indices.items, shape, 1)
    ELSE IF indices.typ = "tuple" THEN ParseLoop(indices.items, shape, 1)
    ELSE Raise("TypeError")

\* IndexerResolver.__init__(obj, indices): the resolver, or the exception.
IndexerResolver(obj, indices) ==
    LET parsed == parse_indices(indices, obj.shape)
    IN  IF parsed.ok THEN Ok([obj |-> obj, indices |-> parsed.val]) ELSE parsed

\* IndexerResolver.is_single_element
is_single_element(resolver) ==
    \A k \in 1..Len(resolver.indices) : IsNone(resolver.indices[k].size)

\* IndexerResolver.get_index(dim), dim counted from 0 as in the source.
get_index(resolver, dim) ==
    [obj |-> resolver.obj, indices |-> <<resolver.indices[dim + 1]>>]

\* ---------------------------------------------------------- call parameters
\* Python's None among parameter values (all parameter values are strings).
PyNone == "None"

ParamNames == {"mask", "accum", "replace", "input_mask"}

ParamValues(k) ==
    CASE k = "mask" -> {PyNone, "M"}
      [] k = "input_mask" -> {PyNone, "IM"}
      [] k = "accum" -> {"plus"}
      [] k = "replace" -> {"True"}

AllParamValues == UNION {ParamValues(k) : k \in ParamNames}

\* Every keyword dictionary an Updater may capture: any subset of the names.
Kwargs ==
    UNION {{f \in [D -> AllParamValues] : \A k \in D : f[k] \in ParamValues(k)} :
           D \in SUBSET ParamNames}

NoKwargs == [k \in {} |-> PyNone]

\* dict.get(key): the value, or None when the key is absent.
kwargs_get(kw, k) == IF k \in DOMAIN kw THEN kw[k] ELSE PyNone

\* Right-hand values of an assignment.
Values == {"v"}

\* ----------------------------------------------------------- staging objects
\* Updater.__init__(parent, **kwargs)
Updater(parent, kwargs) == [parent |-> parent, kwargs |-> kwargs]

\* AmbiguousAssignOrExtract.__init__(parent, resolved_indexes)
AmbiguousAssignOrExtract(parent, resolved_indexes) ==
    [parent |-> parent, resolved_indexes |-> resolved_indexes]

\* Assigner.__init__(updater, resolved_indexes, is_submask): the Assigner, or
\* TypeError when the updater carries an input_mask.
Assigner(upd, resolved_indexes, is_submask) ==
    IF kwargs_get(upd.kwargs, "input_mask") # PyNone THEN Raise("TypeError")
    ELSE Ok([updater |-> upd, resolved_indexes |-> resolved_indexes,
             is_submask |-> is_submask])

\* ------------------------------------------------------- container primitives
\* One record per invocation of a primitive of the container (the engine side).
AssignElement(c, r, v) ==
    [prim |-> "assign_element", on |-> c, resolved |-> r, obj |-> v]
DeleteElement(c, r) == [prim |-> "delete_element", on |-> c, resolved |-> r]
\* What _prep_for_assign returns: the deferred assignment.
Delayed(r, v, mask, is_submask) ==
    [resolved |-> r, obj |-> v, mask |-> mask, is_submask |-> is_submask]
PrepForAssign(c, r, v, mask, is_submask) ==
    [prim |-> "prep_for_assign", on |-> c, resolved |-> r, obj |-> v,
     mask |-> mask, is_submask |-> is_submask]
Update(c, delayed, kw) ==
    [prim |-> "update", on |-> c, delayed |-> delayed, kwargs |-> kw]
ExtractElement(c, r) == [prim |-> "extract_element", on |-> c, resolved |-> r]
PrepForExtract(c, r) == [prim |-> "prep_for_extract", on |-> c, resolved |-> r]
ExprNew(c, r, mask) == [prim |-> "new", on |-> c, resolved |-> r, mask |-> mask]

\* Updater.update(delayed) / Updater.__lshift__(delayed): the primitives invoked.
Updater_update(upd, delayed) == <<Update(upd.parent, delayed, upd.kwargs)>>

\* Updater._setitem taking the fast path for every single-element index.
Updater_setitem_fast_if_single(upd, resolved_indexes, obj, is_submask) ==
    IF is_single_element(resolved_indexes)
    THEN <<AssignElement(upd.parent, resolved_indexes, obj)>>
    ELSE LET mask == kwargs_get(upd.kwargs, "mask")
         IN  <<PrepForAssign(upd.parent, resolved_indexes, obj, mask, is_submask)>>
             \o Updater_update(upd, Delayed(resolved_indexes, obj, mask, is_submask))

\* Updater._setitem(resolved_indexes, obj, is_submask): the primitives invoked.
Updater_setitem(upd, resolved_indexes, obj, is_submask) ==
    IF is_single_element(resolved_indexes) /\ DOMAIN upd.kwargs = {}
    THEN <<AssignElement(upd.parent, resolved_indexes, obj)>>
    ELSE LET mask == kwargs_get(upd.kwargs, "mask")
         IN  <<PrepForAssign(upd.parent, resolved_indexes, obj, mask, is_submask)>>
             \o Updater_update(upd, Delayed(resolved_indexes, obj, mask, is_submask))

\* ------------------------------------------------------------------- masks
\* A mask object: its declared type, the container it wraps and, for the
\* temporary built by input-mask translation, the resolver it was extracted
\* through (None for a mask the user supplied).
MaskObj(masktype, c, via) == [masktype |-> masktype, mask |-> c, via |-> via]

MaskTypes == {"StructuralMask", "NotAMask"}

\* The input_mask arguments tried on new(): masks over Vectors and Matrices.
InputMasks == {MaskObj(t, c, None) : t \in MaskTypes, c \in Vectors \cup Matrices}

\* The mask arguments tried on new().
UserMasks == {MaskObj("StructuralMask", c, None) : c \in {Vector(MaxSize)}}

\* base._check_mask(input_mask, output): raises unless the argument is a mask.
check_mask(input_mask, output) ==
    IF input_mask.masktype = "NotAMask" THEN Raise("TypeError") ELSE Ok(TRUE)

\* mask_projection with the two size comparisons exchanged.
mask_projection_swapped(a, input_mask) ==
    LET m == input_mask.mask
        ri == a.resolved_indexes
    IN  IF m.kind = "Vector" /\ a.parent.kind # "Vector"
        THEN IF IsNone(ri.indices[1].size)
             THEN IF a.parent.shape[1] # m.shape[1] THEN Raise("ValueError")
                  ELSE Ok(get_index(ri, 1))
             ELSE IF IsNone(ri.indices[2].size)
             THEN IF a.parent.shape[2] # m.shape[1] THEN Raise("ValueError")
                  ELSE Ok(get_index(ri, 0))
             ELSE Raise("TypeError")
        ELSE IF m.shape # a.parent.shape THEN Raise("ValueError")
        ELSE Ok(ri)

\* The resolver the input mask is extracted through, or the exception:
\* the branches of AmbiguousAssignOrExtract._input_mask_to_mask.
mask_projection(a, input_mask) ==
    LET m == input_mask.mask
        ri == a.resolved_indexes
    IN  IF m.kind = "Vector" /\ a.parent.kind # "Vector"
        THEN IF IsNone(ri.indices[1].size)
             THEN IF a.parent.shape[2] # m.shape[1] THEN Raise("ValueError")
                  ELSE Ok(get_index(ri, 1))
             ELSE IF IsNone(ri.indices[2].size)
             THEN IF a.parent.shape[1] # m.shape[1] THEN Raise("ValueError")
                  ELSE Ok(get_index(ri, 0))
             ELSE Raise("TypeError")
        ELSE IF m.shape # a.parent.shape THEN Raise("ValueError")
        ELSE Ok(ri)

\* AmbiguousAssignOrExtract._input_mask_to_mask(input_mask): the derived mask,
\* the resolver used and the primitives invoked on the mask's container, or
\* the exception.
input_mask_to_mask(a, input_mask) ==
    LET p == mask_projection(a, input_mask)
    IN  IF ~p.ok THEN p
        ELSE Ok([mask |-> MaskObj(input_mask.masktype, input_mask.mask, Some(p.val)),
                 resolver |-> p.val,
                 calls |-> <<PrepForExtract(input_mask.mask, p.val),
                             ExprNew(input_mask.mask, p.val, None)>>])

\* AmbiguousAssignOrExtract.new(mask=, input_mask=): the primitives invoked and
\* the resolvers derived, or the exception.  mask and input_mask are None or
\* Some(mask object).
Aae_new_outcome(a, mask, input_mask) ==
    IF is_single_element(a.resolved_indexes)
    THEN IF mask # None \/ input_mask # None THEN Raise("TypeError")
         ELSE Ok([calls |-> <<ExtractElement(a.parent, a.resolved_indexes)>>,
                  derived |-> {}])
    ELSE IF input_mask # None
    THEN IF mask # None THEN Raise("TypeError")
         ELSE IF ~check_mask(input_mask[1], a.parent).ok
         THEN check_mask(input_mask[1], a.parent)
         ELSE LET t == input_mask_to_mask(a, input_mask[1])
              IN  IF ~t.ok THEN t
                  ELSE Ok([calls |-> t.val.calls
                                     \o <<PrepForExtract(a.parent, a.resolved_indexes),
                                          ExprNew(a.parent, a.resolved_indexes,
                                                  Some(t.val.mask))>>,
                           derived |-> {t.val.resolver}])
    ELSE Ok([calls |-> <<PrepForExtract(a.parent, a.resolved_indexes),
                         ExprNew(a.parent, a.resolved_indexes, mask)>>,
             derived |-> {}])

\* ----------------------------------------------------------- infix dispatch
Recognized == {"Vector", "Matrix", "TransposedMatrix"}
MatrixKinds == {"Matrix", "TransposedMatrix"}

\* One invocation of x._expect_type(y, types, argname=...).
ExpectType(x, y, types, argname) ==
    [prim |-> "expect_type", on |-> x, arg |-> y, types |-> types, argname |-> argname]
\* One probe: getattr(left, method)(right, op).
Probe(left, method, right) ==
    [prim |-> "probe", on |-> left, method |-> method, arg |-> right]

\* base._expect_type(x, types): raises TypeError on a variant mismatch.
expect_type(y, types) == IF y.kind \in types THEN Ok(TRUE) ELSE Raise("TypeError")

\* The probe's own check: the expression left.method(right) with its output type
\* and shape, or the exception the container raises on incompatible dimensions.
probe(left, method, right) ==
    CASE method \in {"ewise_add", "ewise_mult"} ->
           IF left.shape # right.shape THEN Raise("DimensionMismatch")
           ELSE Ok([output_type |-> IF left.kind = "Vector" THEN "Vector" ELSE "Matrix",
                    shape |-> left.shape])
      [] method = "vxm" ->
           IF left.shape[1] # right.shape[1] THEN Raise("DimensionMismatch")
           ELSE Ok([output_type |-> "Vector", shape |-> <<right.shape[2]>>])
      [] method = "mxv" ->
           IF left.shape[2] # right.shape[1] THEN Raise("DimensionMismatch")
           ELSE Ok([output_type |-> "Vector", shape |-> <<left.shape[1]>>])
      [] method = "mxm" ->
           IF left.shape[2] # right.shape[1] THEN Raise("DimensionMismatch")
           ELSE Ok([output_type |-> "Matrix", shape |-> <<left.shape[1], right.shape[2]>>])

\* The variant check of _ewise_infix_expr: the operands agree, or the
\* _expect_type invocation made, or "bad" for the final raise.
ewise_check(left, right) ==
    IF left.kind \in Recognized
    THEN IF ~(\/ left.kind = right.kind
              \/ (left.kind = "Matrix" /\ right.kind = "TransposedMatrix")
              \/ (left.kind = "TransposedMatrix" /\ right.kind = "Matrix"))
         THEN IF left.kind = "Vector"
              THEN [expect |-> ExpectType(left, right, {"Vector"}, "right")]
              ELSE [expect |-> ExpectType(left, right, MatrixKinds, "right")]
         ELSE [agree |-> TRUE]
    ELSE IF right.kind = "Vector"
    THEN [expect |-> ExpectType(right, left, {"Vector"}, "left")]
    ELSE IF right.kind \in MatrixKinds
    THEN [expect |-> ExpectType(right, left, MatrixKinds, "left")]
    ELSE [bad |-> TRUE]

\* The expression classes, as records: the class, the operands, the method tag
\* and the output shape stored.
InfixExpr(cls, left, right, method_name, shape) ==
    [cls |-> cls, left |-> left, right |-> right, method_name |-> method_name,
     shape |-> shape]

\* ewise_node testing the method only for vector outputs.
ewise_node_matrix_always_add(left, right, method, expr) ==
    IF expr.output_type = "Vector"
    THEN IF method = "ewise_mult"
         THEN InfixExpr("VectorEwiseMultExpr", left, right, "ewise_mult", left.shape)
         ELSE InfixExpr("VectorEwiseAddExpr", left, right, "ewise_add", left.shape)
    ELSE InfixExpr("MatrixEwiseAddExpr", left, right, "ewise_add", left.shape)

\* The node _ewise_infix_expr builds from the probe's output type.
ewise_node(left, right, method, expr) ==
    IF expr.output_type = "Vector"
    THEN IF method = "ewise_mult"
         THEN InfixExpr("VectorEwiseMultExpr", left, right, "ewise_mult", left.shape)
         ELSE InfixExpr("VectorEwiseAddExpr", left, right, "ewise_add", left.shape)
    ELSE IF method = "ewise_mult"
    THEN InfixExpr("MatrixEwiseMultExpr", left, right, "ewise_mult", left.shape)
    ELSE InfixExpr("MatrixEwiseAddExpr", left, right, "ewise_add", left.shape)

\* A dispatch's outcome: the invocations made, then the node or the exception.
Dispatched(cs, r) == [calls |-> cs, outcome |-> r]

\* The part of a dispatch after the variant check has passed: the probe, then
\* the node built from it.
probe_then_build(cs, left, method, right) ==
    LET e == probe(left, method, right)
        cs2 == cs \o <<Probe(left, method, right)>>
    IN  IF ~e.ok THEN Dispatched(cs2, e)
        ELSE IF method \in {"ewise_add", "ewise_mult"}
        THEN Dispatched(cs2, Ok(ewise_node(left, right, method, e.val)))
        ELSE IF e.val.output_type = "Vector"
        THEN Dispatched(cs2, Ok(InfixExpr("VectorMatMulExpr", left, right, method,
                                          e.val.shape)))
        ELSE Dispatched(cs2, Ok(InfixExpr("MatrixMatMulExpr", left, right, "mxm",
                                          e.val.shape)))

\* _ewise_infix_expr(left, right, method=, within=)
ewise_infix_expr(left, right, method) ==
    LET chk == ewise_check(left, right)
    IN  IF "agree" \in DOMAIN chk THEN probe_then_build(<<>>, left, method, right)
        ELSE IF "bad" \in DOMAIN chk THEN Dispatched(<<>>, Raise("TypeError"))
        ELSE IF ~expect_type(chk.expect.arg, chk.expect.types).ok
        THEN Dispatched(<<chk.expect>>, Raise("TypeError"))
        ELSE probe_then_build(<<chk.expect>>, left, method, right)

\* matmul_check taking a Matrix right operand of a Matrix for a Vector.
matmul_check_matrix_as_vector(left, right) ==
    IF left.kind = "Vector"
    THEN IF right.kind \in MatrixKinds THEN [method |-> "vxm"]
         ELSE [expect |-> ExpectType(left, right, MatrixKinds, "right")]
    ELSE IF left.kind \in MatrixKinds
    THEN IF right.kind = "Vector" \/ right.kind = "Matrix" THEN [method |-> "mxv"]
         ELSE IF right.kind \in MatrixKinds THEN [method |-> "mxm"]
         ELSE [expect |-> ExpectType(left, right, Recognized, "right")]
    ELSE IF right.kind = "Vector"
    THEN [expect |-> ExpectType(right, left, MatrixKinds, "left")]
    ELSE IF right.kind \in MatrixKinds
    THEN [expect |-> ExpectType(right, left, Recognized, "left")]
    ELSE [bad |-> TRUE]

\* The variant check of _matmul_infix_expr: the method chosen, the _expect_type
\* invocation made instead, or "bad" for the final raise.
matmul_check(left, right) ==
    IF left.kind = "Vector"
    THEN IF right.kind \in MatrixKinds THEN [method |-> "vxm"]
         ELSE [expect |-> ExpectType(left, right, MatrixKinds, "right")]
    ELSE IF left.kind \in MatrixKinds
    THEN IF right.kind = "Vector" THEN [method |-> "mxv"]
         ELSE IF right.kind \in MatrixKinds THEN [method |-> "mxm"]
         ELSE [expect |-> ExpectType(left, right, Recognized, "right")]
    ELSE IF right.kind = "Vector"
    THEN [expect |-> ExpectType(right, left, MatrixKinds, "left")]
    ELSE IF right.kind \in MatrixKinds
    THEN [expect |-> ExpectType(right, left, Recognized, "left")]
    ELSE [bad |-> TRUE]

\* _matmul_infix_expr(left, right, within=).  When _expect_type returns, no
\* method has been bound and the probe's getattr raises UnboundLocalError.
matmul_infix_expr(left, right) ==
    LET chk == matmul_check(left, right)
    IN  IF "method" \in DOMAIN chk
        THEN probe_then_build(<<>>, left, chk.method, right)
        ELSE IF "bad" \in DOMAIN chk THEN Dispatched(<<>>, Raise("TypeError"))
        ELSE IF ~expect_type(chk.expect.arg, chk.expect.types).ok
        THEN Dispatched(<<chk.expect>>, Raise("TypeError"))
        ELSE Dispatched(<<chk.expect>>, Raise("UnboundLocalError"))

\* ----------------------------------------------------------------- the state
VARIABLES
    pc,         \* "idle", "staged" (a staging object awaits more syntax), "done"
    route,      \* the methods called so far in the current statement
    aae,        \* the AmbiguousAssignOrExtract alive, or None
    updater,    \* the Updater alive, or None
    assigner,   \* the Assigner alive, or None
    resolvers,  \* every IndexerResolver built in the current statement
    calls,      \* the container primitives invoked, in order
    exc,        \* the exception raised, or None
    result,     \* the expression node returned by a dispatch, or None
    operands    \* the arguments of the statement's last call, or None

vars == <<pc, route, aae, updater, assigner, resolvers, calls, exc, result, operands>>

Init ==
    /\ pc = "idle"
    /\ route = <<>>
    /\ aae = None
    /\ updater = None
    /\ assigner = None
    /\ resolvers = {}
    /\ calls = <<>>
    /\ exc = None
    /\ result = None
    /\ operands = None

\* Containers that support indexing syntax C[...] (a Scalar has none).
Indexable == Vectors \cup Matrices \cup Transposed

\* C(params): the container's call syntax builds Updater(C, **params).
ContainerCall ==
    /\ pc = "idle"
    /\ \E c \in Containers, kw \in Kwargs :
         /\ updater' = Some(Updater(c, kw))
         /\ route' = <<"Container.__call__">>
         /\ pc' = "staged"
    /\ UNCHANGED <<aae, assigner, resolvers, calls, exc, result, operands>>

\* C[keys]: the container's index syntax resolves the keys and returns the
\* ambiguous staging object.
ContainerGetitem ==
    /\ pc = "idle"
    /\ \E c \in Indexable : \E keys \in IndexArgs(c) :
         LET r == IndexerResolver(c, keys)
         IN  /\ route' = <<"Container.__getitem__">>
             /\ IF r.ok
                THEN /\ aae' = Some(AmbiguousAssignOrExtract(c, r.val))
                     /\ resolvers' = {r.val}
                     /\ exc' = None
                     /\ pc' = "staged"
                ELSE /\ aae' = None
                     /\ resolvers' = {}
                     /\ exc' = Some(r.err)
                     /\ pc' = "done"
    /\ UNCHANGED <<updater, assigner, calls, result, operands>>

\* IndexerResolver(obj, indices): the constructor on its own, its arguments kept.
IndexerResolver_init ==
    /\ pc = "idle"
    /\ \E c \in Indexable : \E keys \in IndexArgs(c) :
         LET r == IndexerResolver(c, keys)
         IN  /\ route' = <<"IndexerResolver">>
             /\ operands' = Some([obj |-> c, indices |-> keys])
             /\ resolvers' = IF r.ok THEN {r.val} ELSE {}
             /\ exc' = IF r.ok THEN None ELSE Some(r.err)
             /\ pc' = "done"
    /\ UNCHANGED <<aae, updater, assigner, calls, result>>

\* A staged Updater awaiting syntax: C(params) with nothing applied yet.
UpdaterStaged == pc = "staged" /\ updater # None /\ assigner = None /\ aae = None

\* Updater.__getitem__(keys): C(params)[keys]
Updater_getitem ==
    /\ UpdaterStaged
    /\ \E keys \in IndexArgs(updater[1].parent) :
         LET upd == updater[1]
             r == IF upd.parent.kind = "Scalar" THEN Raise("TypeError")
                  ELSE IndexerResolver(upd.parent, keys)
             a == IF r.ok THEN Assigner(upd, r.val, FALSE) ELSE r
         IN  /\ route' = Append(route, "Updater.__getitem__")
             /\ resolvers' = IF r.ok THEN {r.val} ELSE {}
             /\ IF a.ok
                THEN assigner' = Some(a.val) /\ exc' = None /\ pc' = "staged"
                ELSE assigner' = None /\ exc' = Some(a.err) /\ pc' = "done"
    /\ UNCHANGED <<aae, updater, calls, result, operands>>

\* Updater.__setitem__(keys, obj): C(params)[keys] = obj
Updater_setitem_keys ==
    /\ UpdaterStaged
    /\ \E keys \in IndexArgs(updater[1].parent), obj \in Values :
         LET upd == updater[1]
             r == IF upd.parent.kind = "Scalar" THEN Raise("TypeError")
                  ELSE IndexerResolver(upd.parent, keys)
         IN  /\ route' = Append(route, "Updater.__setitem__")
             /\ resolvers' = IF r.ok THEN {r.val} ELSE {}
             /\ calls' = IF r.ok THEN Updater_setitem(upd, r.val, obj, FALSE) ELSE <<>>
             /\ exc' = IF r.ok THEN None ELSE Some(r.err)
             /\ pc' = "done"
    /\ UNCHANGED <<aae, updater, assigner, result, operands>>

\* Updater.__delitem__ deleting only when no parameters were captured.
Updater_delitem_needs_no_kwargs(upd, r) ==
    IF is_single_element(r) /\ DOMAIN upd.kwargs = {}
    THEN Ok(<<DeleteElement(upd.parent, r)>>)
    ELSE Raise("TypeError")

\* Updater.__delitem__(keys): the primitives invoked, or the exception.
Updater_delitem_outcome(upd, r) ==
    IF is_single_element(r) THEN Ok(<<DeleteElement(upd.parent, r)>>)
    ELSE Raise("TypeError")

\* Updater.__delitem__(keys): del C(params)[keys]
Updater_delitem ==
    /\ UpdaterStaged
    /\ \E keys \in IndexArgs(updater[1].parent) :
         LET upd == updater[1]
             r == IF upd.parent.kind = "Scalar" THEN Raise("TypeError")
                  ELSE IndexerResolver(upd.parent, keys)
             d == IF r.ok THEN Updater_delitem_outcome(upd, r.val) ELSE r
         IN  /\ route' = Append(route, "Updater.__delitem__")
             /\ resolvers' = IF r.ok THEN {r.val} ELSE {}
             /\ calls' = IF d.ok THEN d.val ELSE <<>>
             /\ exc' = IF d.ok THEN None ELSE Some(d.err)
             /\ pc' = "done"
    /\ UNCHANGED <<aae, updater, assigner, result, operands>>

\* Expressions applied whole to a container: C(params) << delayed.
DelayedExprs == {"expr"}

\* Updater.__lshift__(delayed) and Updater.update(delayed)
Updater_apply ==
    /\ UpdaterStaged
    /\ \E m \in {"Updater.__lshift__", "Updater.update"}, delayed \in DelayedExprs :
         /\ route' = Append(route, m)
         /\ calls' = Updater_update(updater[1], delayed)
         /\ pc' = "done"
    /\ UNCHANGED <<aae, updater, assigner, resolvers, exc, result, operands>>

\* Assigner.update(obj) and Assigner.__lshift__(obj)
Assigner_apply ==
    /\ pc = "staged"
    /\ assigner # None
    /\ \E m \in {"Assigner.__lshift__", "Assigner.update"}, obj \in Values :
         LET a == assigner[1]
         IN  /\ route' = Append(route, m)
             /\ calls' = Updater_setitem(a.updater, a.resolved_indexes, obj, a.is_submask)
             /\ pc' = "done"
    /\ UNCHANGED <<aae, updater, assigner, resolvers, exc, result, operands>>

\* A staged AmbiguousAssignOrExtract awaiting syntax: C[keys].
AaeStaged == pc = "staged" /\ aae # None /\ assigner = None

\* is_submask set whenever the mask keyword is present, None or not.
call_is_submask_if_key_present(upd) == "mask" \in DOMAIN upd.kwargs

\* is_submask as AmbiguousAssignOrExtract.__call__ computes it.
call_is_submask(upd) == kwargs_get(upd.kwargs, "mask") # PyNone

\* AmbiguousAssignOrExtract.__call__(**kwargs): C[keys](params)
Aae_call ==
    /\ AaeStaged
    /\ \E kw \in Kwargs :
         LET upd == Updater(aae[1].parent, kw)
             a == Assigner(upd, aae[1].resolved_indexes, call_is_submask(upd))
         IN  /\ route' = Append(route, "AmbiguousAssignOrExtract.__call__")
             /\ updater' = Some(upd)
             /\ IF a.ok
                THEN assigner' = Some(a.val) /\ exc' = None /\ pc' = "staged"
                ELSE assigner' = None /\ exc' = Some(a.err) /\ pc' = "done"
    /\ UNCHANGED <<aae, resolvers, calls, result, operands>>

\* AmbiguousAssignOrExtract.update committing on every container, the
\* transposed view included.
Aae_update_outcome_commits_on_transposed(a, obj) ==
    LET upd == Updater(a.parent, NoKwargs)
    IN  Ok([updater |-> upd,
            calls |-> Updater_setitem(upd, a.resolved_indexes, obj, FALSE)])

\* AmbiguousAssignOrExtract.update(obj): the fresh Updater and the primitives
\* invoked, or the exception.
Aae_update_outcome(a, obj) ==
    IF a.parent.kind = "TransposedMatrix" THEN Raise("TypeError")
    ELSE LET upd == Updater(a.parent, NoKwargs)
         IN  Ok([updater |-> upd,
                 calls |-> Updater_setitem(upd, a.resolved_indexes, obj, FALSE)])

\* AmbiguousAssignOrExtract.update(obj) and __lshift__(obj): C[keys] << obj
Aae_update ==
    /\ AaeStaged
    /\ \E m \in {"AmbiguousAssignOrExtract.__lshift__", "AmbiguousAssignOrExtract.update"},
          obj \in Values :
         LET o == Aae_update_outcome(aae[1], obj)
         IN  /\ route' = Append(route, m)
             /\ updater' = IF o.ok THEN Some(o.val.updater) ELSE None
             /\ calls' = IF o.ok THEN o.val.calls ELSE <<>>
             /\ exc' = IF o.ok THEN None ELSE Some(o.err)
             /\ pc' = "done"
    /\ UNCHANGED <<aae, assigner, resolvers, result, operands>>

\* AmbiguousAssignOrExtract.new(mask=, input_mask=): C[keys].new(...)
Aae_new ==
    /\ AaeStaged
    /\ \E mask \in {None} \cup {Some(m) : m \in UserMasks},
          input_mask \in {None} \cup {Some(m) : m \in InputMasks} :
         LET o == Aae_new_outcome(aae[1], mask, input_mask)
         IN  /\ route' = Append(route, "AmbiguousAssignOrExtract.new")
             /\ operands' = Some([mask |-> mask, input_mask |-> input_mask])
             /\ calls' = IF o.ok THEN o.val.calls ELSE <<>>
             /\ resolvers' = IF o.ok THEN resolvers \cup o.val.derived ELSE resolvers
             /\ exc' = IF o.ok THEN None ELSE Some(o.err)
             /\ pc' = "done"
    /\ UNCHANGED <<aae, updater, assigner, result>>

\* The operands of an infix operator: every container variant; a Scalar stands
\* for an operand that is no Vector, Matrix or TransposedMatrix.
Operands == Containers

\* left | right, left & right: _ewise_infix_expr
EwiseInfix ==
    /\ pc = "idle"
    /\ \E left \in Operands, right \in Operands, method \in {"ewise_add", "ewise_mult"} :
         LET d == ewise_infix_expr(left, right, method)
         IN  /\ route' = <<"_ewise_infix_expr">>
             /\ operands' = Some([left |-> left, right |-> right, method |-> method])
             /\ calls' = d.calls
             /\ result' = IF d.outcome.ok THEN Some(d.outcome.val) ELSE None
             /\ exc' = IF d.outcome.ok THEN None ELSE Some(d.outcome.err)
             /\ pc' = "done"
    /\ UNCHANGED <<aae, updater, assigner, resolvers>>

\* left @ right: _matmul_infix_expr
MatmulInfix ==
    /\ pc = "idle"
    /\ \E left \in Operands, right \in Operands :
         LET d == matmul_infix_expr(left, right)
         IN  /\ route' = <<"_matmul_infix_expr">>
             /\ operands' = Some([left |-> left, right |-> right, method |-> "matmul"])
             /\ calls' = d.calls
             /\ result' = IF d.outcome.ok THEN Some(d.outcome.val) ELSE None
             /\ exc' = IF d.outcome.ok THEN None ELSE Some(d.outcome.err)
             /\ pc' = "done"
    /\ UNCHANGED <<aae, updater, assigner, resolvers>>

\* The statement is over: its staging objects are dropped.
Finish ==
    /\ pc = "done"
    /\ pc' = "idle"
    /\ route' = <<>>
    /\ aae' = None
    /\ updater' = None
    /\ assigner' = None
    /\ resolvers' = {}
    /\ calls' = <<>>
    /\ exc' = None
    /\ result' = None
    /\ operands' = None

Next ==
    \/ IndexerResolver_init
    \/ ContainerCall
    \/ ContainerGetitem
    \/ Updater_getitem
    \/ Updater_setitem_keys
    \/ Updater_delitem
    \/ Updater_apply
    \/ Assigner_apply
    \/ Aae_call
    \/ Aae_update
    \/ Aae_new
    \/ EwiseInfix
    \/ MatmulInfix
    \/ Finish

Spec == Init /\ [][Next]_vars

\* ------------------------------------------------------------------ helpers
Last(s) == s[Len(s)]

\* The primitives of kind p invoked in the current statement.
CallsOf(p) == {k \in 1..Len(calls) : calls[k].prim = p}

\* Every size field is None, stated on the specs themselves.
AllSizesNone(r) == \A k \in 1..Len(r.indices) : r.indices[k].size = None

\* Every resolver alive holds only index values that lie inside every
\* dimension of its container, so that no out-of-range index takes part in the
\* state.
AllInBounds ==
    \A r \in resolvers : \A k \in 1..Len(r.indices) : \A d \in 1..Len(r.obj.shape) :
        CASE r.indices[k].idx.tag = "CScalar" ->
               r.indices[k].idx.val >= 0 /\ r.indices[k].idx.val < r.obj.shape[d]
          [] r.indices[k].idx.tag = "CArray" ->
               \A j \in 1..Len(r.indices[k].idx.vals) :
                   /\ r.indices[k].idx.vals[j] >= 0
                   /\ r.indices[k].idx.vals[j] < r.obj.shape[d]
          [] OTHER -> TRUE

\* --------------------------------------------------------------------- C1
\* The constructor has just run on a Vector of size n with a plain integer i.
C1_IntOnVector ==
    /\ route = <<"IndexerResolver">>
    /\ operands[1].obj.kind = "Vector"
    /\ operands[1].indices.typ = "int"

\* C1: for a dimension of size n, resolving a plain integer i succeeds and
\* yields (i, None) exactly when 0 <= i < n; every other integer, negative
\* values included, raises IndexError.
C1_IntegerBoundsChecked ==
    C1_IntOnVector =>
        LET n == operands[1].obj.shape[1]
            i == operands[1].indices.val
        IN  IF 0 <= i /\ i < n
            THEN /\ exc = None
                 /\ resolvers = {[obj |-> operands[1].obj,
                                  indices |-> <<IndexSpec(CScalar(i), None)>>]}
            ELSE exc = Some("IndexError") /\ resolvers = {}

\* --------------------------------------------------------------------- C2
\* The IndexSpec invariant on one spec of a dimension of size n.
C2_SpecInvariant(spec, n) ==
    CASE spec.idx.tag = "CArray" ->
           /\ \A k \in 1..Len(spec.idx.vals) :
                0 <= spec.idx.vals[k] /\ spec.idx.vals[k] < n
           /\ spec.size = Some(Len(spec.idx.vals))
      [] spec.idx.tag = "GrB_ALL" -> spec.size = Some(n)
      [] OTHER -> TRUE

\* C2: every per-dimension spec of every successfully built IndexerResolver
\* satisfies the IndexSpec invariant: an explicit sequence holds only values in
\* [0, size) and its count is its length; the ALL marker's count is the size.
C2_IndexSpecInvariant ==
    \A r \in resolvers :
        Len(r.indices) = Len(r.obj.shape) =>
            \A k \in 1..Len(r.indices) : C2_SpecInvariant(r.indices[k], r.obj.shape[k])

\* --------------------------------------------------------------------- C3
\* The last method called belongs to an assignment route.
C3_AssignMethods ==
    {"Updater.__getitem__", "Updater.__setitem__", "Assigner.update",
     "Assigner.__lshift__", "AmbiguousAssignOrExtract.__call__"}

\* C3: input_mask is never accepted on an assignment: on every assignment route
\* whose parameters carry a non-None input_mask an error is raised and no
\* assign_element, prep_for_assign or update is invoked.  (Stated over the
\* statements whose indexes are all in range.)
C3_InputMaskRejectedOnAssign ==
    (/\ route # <<>>
     /\ AllInBounds
     /\ Last(route) \in C3_AssignMethods
     /\ updater # None
     /\ kwargs_get(updater[1].kwargs, "input_mask") # PyNone)
    => (exc # None /\ calls = <<>>)

\* --------------------------------------------------------------------- C4
\* new(input_mask=M) has just run on a multi-element index of a 2-D container
\* with M a mask over a Vector and no mask argument.
C4_Case ==
    /\ route # <<>>
    /\ Last(route) = "AmbiguousAssignOrExtract.new"
    /\ Len(aae[1].parent.shape) = 2
    /\ ~AllSizesNone(aae[1].resolved_indexes)
    /\ operands[1].mask = None
    /\ operands[1].input_mask # None
    /\ operands[1].input_mask[1].masktype # "NotAMask"
    /\ operands[1].input_mask[1].mask.kind = "Vector"

\* The translation succeeded and extracted the mask once, through the single
\* spec of dimension d (counted from 1) of the resolved index.
C4_ExtractedThrough(d) ==
    LET m == operands[1].input_mask[1].mask
        ri == aae[1].resolved_indexes
        onMask == {k \in 1..Len(calls) :
                     calls[k].prim = "prep_for_extract" /\ calls[k].on = m}
    IN  /\ exc = None
        /\ onMask = {1}
        /\ calls[1].resolved.indices = <<ri.indices[d]>>
        /\ calls[2].prim = "new" /\ calls[2].on = m
        /\ calls[2].resolved.indices = <<ri.indices[d]>>

\* C4: with a Vector input_mask of length m on an (r, c) container: an integer
\* row passes iff m = c (else ValueError), an integer column passes iff m = r
\* (else ValueError), no integer dimension raises TypeError; on success the mask
\* is extracted through the projection of the ranging dimension only.
C4_VectorInputMaskTranslation ==
    C4_Case =>
        LET m == operands[1].input_mask[1].mask.shape[1]
            r == aae[1].parent.shape[1]
            c == aae[1].parent.shape[2]
            ri == aae[1].resolved_indexes
        IN  IF ri.indices[1].size = None
            THEN IF m = c THEN C4_ExtractedThrough(2)
                 ELSE exc = Some("ValueError") /\ calls = <<>>
            ELSE IF ri.indices[2].size = None
            THEN IF m = r THEN C4_ExtractedThrough(1)
                 ELSE exc = Some("ValueError") /\ calls = <<>>
            ELSE exc = Some("TypeError") /\ calls = <<>>

\* An integer column of a non-square Matrix extracted with a mask as long as
\* the Matrix has rows.
C4_Witness ==
    /\ C4_Case
    /\ exc = None
    /\ aae[1].parent.shape[1] # aae[1].parent.shape[2]
    /\ aae[1].resolved_indexes.indices[2].size = None
    /\ Len(calls) = 4

\* --------------------------------------------------------------------- C5
\* del updater[index] has just run on a non-scalar container and the index
\* resolved.
C5_Case ==
    /\ route # <<>>
    /\ Last(route) = "Updater.__delitem__"
    /\ updater[1].parent.kind # "Scalar"
    /\ resolvers # {}

\* C5: del updater[index] on a non-scalar container makes exactly one
\* delete_element call with the resolved index and no other primitive call when
\* the index is single-element, and raises without any call when it is
\* multi-element, whatever parameters the Updater captured.
C5_DeleteSingleElementOnly ==
    C5_Case =>
        \A r \in resolvers :
            IF AllSizesNone(r)
            THEN /\ exc = None
                 /\ Len(calls) = 1
                 /\ calls[1].prim = "delete_element"
                 /\ calls[1].on = updater[1].parent
                 /\ calls[1].resolved = r
            ELSE exc = Some("TypeError") /\ calls = <<>>

\* A single element deleted through an Updater that captured a mask.
C5_Witness ==
    /\ C5_Case
    /\ kwargs_get(updater[1].kwargs, "mask") # PyNone
    /\ Len(calls) = 1
    /\ calls[1].prim = "delete_element"

\* --------------------------------------------------------------------- C6
C6_Case == route = <<"_matmul_infix_expr">>

\* The method the claim assigns to a pair of operand variants, "none" for a
\* pair it says must be rejected.
C6_Tag(l, r) ==
    CASE l.kind = "Vector" /\ r.kind \in MatrixKinds -> "vxm"
      [] l.kind \in MatrixKinds /\ r.kind = "Vector" -> "mxv"
      [] l.kind \in MatrixKinds /\ r.kind \in MatrixKinds -> "mxm"
      [] OTHER -> "none"

\* The rejection names the offending side: "right" when the left operand is a
\* container, "left" when it is not, and both operand types (no _expect_type
\* call) when neither operand is a container.
C6_NamesOffendingSide(l, r) ==
    IF calls = <<>> THEN l.kind \notin Recognized /\ r.kind \notin Recognized
    ELSE /\ Len(calls) = 1
         /\ calls[1].prim = "expect_type"
         /\ calls[1].argname = (IF l.kind \in Recognized THEN "right" ELSE "left")
         /\ calls[1].arg = (IF l.kind \in Recognized THEN r ELSE l)

C7_Case == route = <<"_ewise_infix_expr">>

\* Vector with Vector, or Matrix/TransposedMatrix with Matrix/TransposedMatrix.
C7_Compatible(l, r) ==
    \/ (l.kind = "Vector" /\ r.kind = "Vector")
    \/ (l.kind \in MatrixKinds /\ r.kind \in MatrixKinds)

\* What the claim says of an accepted pair: an expression is returned iff the
\* probe succeeds, it carries the requested method, and for Vectors it is a
\* vector expression of the operands' size.
C7_Accepted(l, r, m) ==
    /\ (result # None) = probe(l, m, r).ok
    /\ (exc = None) = (result # None)
    /\ result # None =>
         /\ result[1].method_name = m
         /\ result[1].left = l /\ result[1].right = r
         /\ l.kind = "Vector" =>
              /\ result[1].cls = (IF m = "ewise_mult" THEN "VectorEwiseMultExpr"
                                  ELSE "VectorEwiseAddExpr")
              /\ result[1].shape = l.shape /\ result[1].shape = r.shape
         /\ l.kind # "Vector" =>
              result[1].cls = (IF m = "ewise_mult" THEN "MatrixEwiseMultExpr"
                               ELSE "MatrixEwiseAddExpr")

\* The rejection is the TypeError of one _expect_type call made with argname.
C7_RejectedNaming(argname) ==
    /\ exc = Some("TypeError")
    /\ result = None
    /\ Len(calls) = 1
    /\ calls[1].prim = "expect_type"
    /\ calls[1].argname = argname

\* C7 as stated: an expression is returned iff the operands are Vector with
\* Vector or Matrix/TransposedMatrix with Matrix/TransposedMatrix and the probe
\* succeeds; any other pairing raises TypeError with argname "right" when the
\* left operand is a recognized container and "left" otherwise.
C7_Original ==
    C7_Case =>
        LET l == operands[1].left
            r == operands[1].right
            m == operands[1].method
        IN  IF C7_Compatible(l, r) THEN C7_Accepted(l, r, m)
            ELSE C7_RejectedNaming(IF l.kind \in Recognized THEN "right" ELSE "left")

\* C7 as amended: as stated, except that argname is "left" only when the right
\* operand is a recognized container and the left one is not; when neither
\* operand is a recognized container TypeError is raised with no argname and
\* without any _expect_type call.
C7_EwiseDispatch ==
    C7_Case =>
        LET l == operands[1].left
            r == operands[1].right
            m == operands[1].method
        IN  IF C7_Compatible(l, r) THEN C7_Accepted(l, r, m)
            ELSE IF l.kind \in Recognized THEN C7_RejectedNaming("right")
            ELSE IF r.kind \in Recognized THEN C7_RejectedNaming("left")
            ELSE exc = Some("TypeError") /\ result = None /\ calls = <<>>

\* A Vector combined with a Matrix is rejected naming the right operand.
C7_Witness ==
    /\ C7_Case
    /\ operands[1].left.kind = "Vector"
    /\ operands[1].right.kind = "Matrix"
    /\ exc = Some("TypeError")
    /\ calls # <<>>
    /\ calls[1].argname = "right"

\* --------------------------------------------------------------------- C8
\* C8 as stated: every IndexerResolver alive, built from a raw index or derived
\* by get_index, has as many specs as its container has dimensions, and none
\* is bound to a Scalar.  (Stated over the statements whose indexes are all in
\* range.)
C8_Original ==
    AllInBounds =>
        \A r \in resolvers :
            /\ r.obj.kind # "Scalar"
            /\ Len(r.indices) = Len(r.obj.shape)

\* A resolver derived by get_index: one spec, taken from the resolved index of
\* the staging object, bound to that object's 2-D container.
C8_IsProjection(r) ==
    /\ route # <<>>
    /\ Last(route) = "AmbiguousAssignOrExtract.new"
    /\ Len(r.indices) = 1
    /\ Len(r.obj.shape) = 2
    /\ r.obj = aae[1].parent
    /\ \E d \in 1..2 : r.indices = <<aae[1].resolved_indexes.indices[d]>>

\* C8 as amended: every IndexerResolver built from a raw index has as many
\* specs as its container has dimensions (1 for a Vector, 2 for a Matrix or
\* transposed Matrix) and none is built for a Scalar; a resolver derived by
\* get_index holds the one spec of the selected dimension and stays bound to
\* the 2-D container.
C8_ResolverLength ==
    \A r \in resolvers :
        /\ r.obj.kind # "Scalar"
        /\ Len(r.indices) = Len(r.obj.shape) \/ C8_IsProjection(r)
        /\ r.obj.kind = "Vector" => Len(r.indices) = 1
        /\ Len(r.indices) \in {1, 2}

\* A projection alive beside the resolver it was derived from.
C8_Witness ==
    \E r \in resolvers, q \in resolvers :
        /\ Len(q.indices) = 2
        /\ Len(r.indices) = 1
        /\ r.obj = q.obj
        /\ r.obj.kind = "TransposedMatrix"

\* --------------------------------------------------------------------- C9
C9_CommitMethods ==
    {"Assigner.update", "Assigner.__lshift__", "Updater.__setitem__",
     "AmbiguousAssignOrExtract.update", "AmbiguousAssignOrExtract.__lshift__"}

\* The commit routine has just run: a commit method returned normally.
C9_Case ==
    /\ route # <<>>
    /\ Last(route) \in C9_CommitMethods
    /\ exc = None

\* The resolved index and the is_submask flag handed to the commit routine.
C9_Index ==
    IF assigner # None THEN assigner[1].resolved_indexes
    ELSE IF aae # None THEN aae[1].resolved_indexes
    ELSE CHOOSE r \in resolvers : TRUE

C9_IsSubmask == IF assigner # None THEN assigner[1].is_submask ELSE FALSE

\* C9: the commit routine invokes assign_element exactly once, and neither
\* prep_for_assign nor update, iff the resolved index is single-element and the
\* Updater captured no parameters; otherwise it invokes prep_for_assign once with
\* the captured mask and the given is_submask, then update once with the
\* deferred assignment and all captured parameters, and never assign_element.
C9_CommitRoutine ==
    C9_Case =>
        LET upd == updater[1]
            r == C9_Index
        IN  IF AllSizesNone(r) /\ DOMAIN upd.kwargs = {}
            THEN /\ Len(calls) = 1
                 /\ calls[1].prim = "assign_element"
                 /\ calls[1].on = upd.parent
                 /\ calls[1].resolved = r
                 /\ calls[1].obj \in Values
            ELSE /\ Len(calls) = 2
                 /\ calls[1].prim = "prep_for_assign"
                 /\ calls[1].on = upd.parent
                 /\ calls[1].resolved = r
                 /\ calls[1].obj \in Values
                 /\ calls[1].mask = kwargs_get(upd.kwargs, "mask")
                 /\ calls[1].is_submask = C9_IsSubmask
                 /\ calls[2].prim = "update"
                 /\ calls[2].on = upd.parent
                 /\ calls[2].kwargs = upd.kwargs
                 /\ calls[2].delayed.resolved = r
                 /\ calls[2].delayed.obj = calls[1].obj
                 /\ calls[2].delayed.mask = calls[1].mask
                 /\ calls[2].delayed.is_submask = calls[1].is_submask

\* A single element committed through an Updater whose only parameter is
\* mask=None: parameters were supplied, so the general path is taken.
C9_Witness ==
    /\ C9_Case
    /\ AllSizesNone(C9_Index)
    /\ DOMAIN updater[1].kwargs = {"mask"}
    /\ updater[1].kwargs["mask"] = PyNone
    /\ Len(calls) = 2

\* -------------------------------------------------------------------- C10
\* The statement went through C[index](params) with a mask that is not None.
C10_CalledWithMask ==
    /\ Len(route) >= 2
    /\ route[2] = "AmbiguousAssignOrExtract.__call__"
    /\ updater # None
    /\ kwargs_get(updater[1].kwargs, "mask") # PyNone

\* C10: the is_submask flag that reaches prep_for_assign is true iff the
\* assignment went through C[index](params) with a mask parameter that is not
\* None; it is false through Updater indexing, even with a mask, and through
\* direct apply on the staging object.
C10_SubmaskOnlyFromCall ==
    \A k \in CallsOf("prep_for_assign") : calls[k].is_submask = C10_CalledWithMask

\* prep_for_assign reached with is_submask true.
C10_Witness ==
    \E k \in CallsOf("prep_for_assign") :
        /\ calls[k].is_submask
        /\ calls[k].mask = "M"

\* ------------------------------------------------------------------ C11
\* The primitives that change the container.
C11_Mutating == {"assign_element", "delete_element", "update"}

\* The operations of the staging layer that can fail with an error of their own.
C11_Operations ==
    {"IndexerResolver", "Container.__getitem__",
     "Updater.__getitem__", "Updater.__setitem__", "Updater.__delitem__",
     "AmbiguousAssignOrExtract.__call__",
     "AmbiguousAssignOrExtract.__lshift__", "AmbiguousAssignOrExtract.update"}

C11_DirectApply ==
    /\ route # <<>>
    /\ Last(route) \in {"AmbiguousAssignOrExtract.__lshift__",
                        "AmbiguousAssignOrExtract.update"}

\* An operation of the layer has failed with one of its own errors.
C11_Failed ==
    /\ route # <<>>
    /\ Last(route) \in C11_Operations
    /\ exc # None

\* C11: when an operation of the layer fails with one of its own errors, no
\* mutating primitive (assign_element, delete_element, update) has been
\* invoked; direct apply on a staging object over a transposed view always
\* raises, and over any other container it commits through a fresh Updater
\* with no parameters, with is_submask false.
C11_NoPartialState ==
    /\ C11_Failed => \A k \in 1..Len(calls) : calls[k].prim \notin C11_Mutating
    /\ C11_DirectApply =>
        LET a == aae[1]
        IN  IF a.parent.kind = "TransposedMatrix"
            THEN /\ exc = Some("TypeError")
                 /\ calls = <<>>
            ELSE /\ exc = None
                 /\ updater # None
                 /\ updater[1].parent = a.parent
                 /\ DOMAIN updater[1].kwargs = {}
                 /\ calls # <<>>
                 /\ \A k \in 1..Len(calls) :
                        /\ calls[k].on = a.parent
                        /\ calls[k].prim \in {"assign_element", "prep_for_assign", "update"}
                        /\ calls[k].prim = "assign_element" =>
                               calls[k].resolved = a.resolved_indexes
                        /\ calls[k].prim = "prep_for_assign" =>
                               /\ calls[k].resolved = a.resolved_indexes
                               /\ calls[k].mask = PyNone
                               /\ ~calls[k].is_submask
                        /\ calls[k].prim = "update" =>
                               /\ DOMAIN calls[k].kwargs = {}
                               /\ ~calls[k].delayed.is_submask

\* Direct apply on a staging object over a transposed view has raised.
C11_Witness ==
    /\ C11_DirectApply
    /\ aae[1].parent.kind = "TransposedMatrix"
    /\ exc = Some("TypeError")
    /\ calls = <<>>

====
